---- MODULE Spec2Model ----
(***************************************************************************)
(* Model of golang-alerthandler/main.go: the /alert webhook handler        *)
(* (handleAlert), the Grafana snapshot client (createGrafanaSnapshot,      *)
(* getDashboardConfig, createSnapshot, sendRequest) and the mail           *)
(* dispatcher (sendEmailWithSnapshotLink).                                 *)
(*                                                                         *)
(* One request is followed from the moment the handler is entered until    *)
(* it returns, along ReceivingBody -> Decoding -> ProcessingAlerts ->      *)
(* Responding.  Inside the loop the handler is cut at its blocking calls:  *)
(* the dashboard GET, the snapshot POST and the SMTP DialAndSend.  Each    *)
(* of these actions runs the handler from the return of one blocking call  *)
(* up to the start of the next one (or to the handler's return).  ReadBody *)
(* is the return of the wait for the request body.                         *)
(*                                                                         *)
(* net/http runs the handler of every request in a goroutine of its own.   *)
(* The variables pc .. resp are the locals of the goroutine that is        *)
(* running; parked holds the locals of the other requests in flight, and   *)
(* Switch hands the processor from one to the other.  cfg is the only      *)
(* package-level variable and belongs to no goroutine.                     *)
(***************************************************************************)
EXTENDS Integers, Sequences, FiniteSets, TLC

\* ------------------------------------------------------------------ bounds
\* Largest number of elements of the "alerts" array of a request.
MaxAlerts == 2

\* ------------------------------------------------------- program constants
StatusOK == 200
StatusBadRequest == 400
StatusInternalServerError == 500

\* main.go:209, the text that stands in for the URL when acquisition fails.
Placeholder == "failed to get snapshot URL"

\* The process-wide configuration as loadConfig leaves it (main.go:48-60).
LoadedConfig ==
    [ GrafanaURL     |-> "http://grafana:3000",
      DashboardUID   |-> "uid1",
      SenderEmail    |-> "sender@example.com",
      RecipientEmail |-> "ops@example.com" ]

\* ------------------------------------------------------------ input domain
\* Variant of MapGet that marks a missing key instead of giving the zero
\* value.
MapGet_NoValue(m, k) ==
    IF \E p \in m : p[1] = k THEN (CHOOSE p \in m : p[1] = k)[2] ELSE "<no value>"

\* A Go map[string]string is a set of <<key, value>> pairs with unique keys;
\* the nil map and the empty map are both the empty set.
MapGet(m, k) ==
    IF \E p \in m : p[1] = k THEN (CHOOSE p \in m : p[1] = k)[2] ELSE ""

\* Elements that can stand in the "alerts" array of a request body.  jtype
\* is the JSON type of the element; an object decodes into an Alert, any
\* other type is a type mismatch for encoding/json.
AlertPool ==
    { [ jtype |-> "object", status |-> "firing",
        annotations |-> { <<"summary", "CPU high">>, <<"description", "92%">> } ],
      [ jtype |-> "object", status |-> "resolved",
        annotations |-> { <<"summary", "Disk full">> } ],
      [ jtype |-> "object", status |-> "other",
        annotations |-> {} ],
      [ jtype |-> "string", status |-> "",
        annotations |-> {} ] }

SeqsUpTo(S, n) == UNION { [1..k -> S] : k \in 0..n }

\* Request bodies.  json is the shape of the document as a whole:
\*   "invalid"  the document  {not json  which is not JSON
\*   "empty"    the empty body
\*   "null"     the document  null
\*   "array"    a document whose top-level value is not an object, e.g.  []
\*   "object"   a JSON object; alertsKey tells what is under "alerts":
\*              "absent" (e.g. {}), "null", "string" or "array" (elems).
Bodies ==
    { [ json |-> j, alertsKey |-> "absent", elems |-> << >> ]
        : j \in { "invalid", "empty", "null", "array", "object" } }
    \cup
    { [ json |-> "object", alertsKey |-> k, elems |-> << >> ]
        : k \in { "null", "string" } }
    \cup
    { [ json |-> "object", alertsKey |-> "array", elems |-> s ]
        : s \in SeqsUpTo(AlertPool, MaxAlerts) }

\* What the Grafana service can answer to the GET and to the POST.
Dashboards == { "dashA", "dashB" }
SnapURLs == { "https://g/snap/abc", "https://x/y" }

\* A response as it arrives from Grafana:
\*   transport  client.Do returned an error (includes the 10 s timeout)
\*   code       the status code of the response
\*   body       what the response body holds: "notjson", "nofield" (JSON
\*              without the expected field), "wrongtype" (the field has
\*              another JSON type than expected) or "field"
\*   val        the value of the expected field
Responses(vals) ==
    { [ transport |-> TRUE, code |-> 0, body |-> "", val |-> "" ] }
    \cup { [ transport |-> FALSE, code |-> c, body |-> "field",
             val |-> CHOOSE v \in vals : TRUE ] : c \in { 201, 500 } }
    \cup { [ transport |-> FALSE, code |-> 200, body |-> b, val |-> "" ]
             : b \in { "notjson", "nofield", "wrongtype" } }
    \cup { [ transport |-> FALSE, code |-> 200, body |-> "field", val |-> v ] : v \in vals }

GetResponses == Responses(Dashboards)
PostResponses == Responses(SnapURLs)

\* Variant of sendRequest without the status check of main.go:163-166.
sendRequest_NoStatusCheck(raw) ==
    IF raw.transport THEN "transport" ELSE "ok"

\* main.go:146-169: what sendRequest makes of a response.
sendRequest(raw) ==
    IF raw.transport THEN "transport"
    ELSE IF raw.code # StatusOK THEN "status"
    ELSE "ok"

\* main.go:94-113: the outcome of getDashboardConfig.  res is "ok" for a nil
\* error and names the failing step otherwise; val is the dashboard object.
getDashboardConfig(raw) ==
    IF sendRequest(raw) # "ok" THEN [ res |-> sendRequest(raw), val |-> "", raw |-> raw ]
    ELSE IF raw.body = "notjson" THEN [ res |-> "badjson", val |-> "", raw |-> raw ]
    ELSE IF raw.body # "field" THEN [ res |-> "nofield", val |-> "", raw |-> raw ]
    ELSE [ res |-> "ok", val |-> raw.val, raw |-> raw ]

\* main.go:127-143: the outcome of createSnapshot once the POST is back.
createSnapshot(raw) ==
    IF sendRequest(raw) # "ok" THEN [ res |-> sendRequest(raw), val |-> "", raw |-> raw ]
    ELSE IF raw.body = "notjson" THEN [ res |-> "badjson", val |-> "", raw |-> raw ]
    ELSE IF raw.body # "field" THEN [ res |-> "nofield", val |-> "", raw |-> raw ]
    ELSE [ res |-> "ok", val |-> raw.val, raw |-> raw ]

\* The outcomes of the two calls over all responses.
GetOutcomes == { getDashboardConfig(raw) : raw \in GetResponses }
PostOutcomes == { createSnapshot(raw) : raw \in PostResponses }

\* ------------------------------------------------------------------- state
VARIABLES
    cfg,          \* the package-level Config
    parked,       \* the other requests in flight: the locals of their goroutines
    self,         \* which request the variables below belong to
    pc,           \* where the handler stands
    readErr,      \* input: does io.ReadAll(r.Body) fail
    reqBody,      \* input: the request body
    alertMessage, \* alertMessage.Alerts after json.Unmarshal
    i,            \* 1-based position of the range loop in alertMessage.Alerts
    dashboard,    \* the dashboard createGrafanaSnapshot holds between GET and POST
    snapshotURL,  \* the loop body's snapshotURL
    trace,        \* history: what the handler did and what came back, in order
    resp          \* what was written to the http.ResponseWriter, in order

vars == << cfg, parked, self, pc, readErr, reqBody, alertMessage, i, dashboard, snapshotURL, trace, resp >>

\* The raw field of an event that is not the return of a Grafana call.
NoResponse == [ transport |-> FALSE, code |-> 0, body |-> "", val |-> "" ]

Ev(kind, alert, val, subject, html) ==
    [ kind |-> kind, alert |-> alert, val |-> val, subject |-> subject, html |-> html,
      raw |-> NoResponse ]

\* The event of a Grafana call coming back with response raw.
EvResp(kind, alert, val, raw) ==
    [ kind |-> kind, alert |-> alert, val |-> val, subject |-> "", html |-> "",
      raw |-> raw ]

\* ------------------------------------------------------------ pure helpers
\* json.Unmarshal(body, &alertMessage): err and the resulting Alerts slice.
\* A syntax error is found before anything is stored.  A type mismatch is
\* remembered and decoding goes on: an "alerts" array gives one Alert per
\* element, the zero Alert for an element that is not an object.
Unmarshal(body) ==
    CASE body.json = "invalid" ->
            [ err |-> "invalid character 'n' looking for beginning of object key string",
              alerts |-> << >> ]
      [] body.json = "empty" ->
            [ err |-> "unexpected end of JSON input", alerts |-> << >> ]
      [] body.json = "null" ->
            [ err |-> "", alerts |-> << >> ]
      [] body.json = "array" ->
            [ err |-> "json: cannot unmarshal array into Go value of type main.AlertMessage",
              alerts |-> << >> ]
      [] body.json = "object" /\ body.alertsKey \in { "absent", "null" } ->
            [ err |-> "", alerts |-> << >> ]
      [] body.json = "object" /\ body.alertsKey = "string" ->
            [ err |-> "json: cannot unmarshal string into Go struct field AlertMessage.alerts of type []main.Alert",
              alerts |-> << >> ]
      [] OTHER ->
            IF \A n \in 1..Len(body.elems) : body.elems[n].jtype = "object"
            THEN [ err |-> "",
                   alerts |-> [ n \in 1..Len(body.elems) |->
                                  [ Status |-> body.elems[n].status,
                                    Annotations |-> body.elems[n].annotations ] ] ]
            ELSE [ err |-> "json: cannot unmarshal string into Go struct field AlertMessage.alerts of type main.Alert",
                   alerts |-> [ n \in 1..Len(body.elems) |->
                                  IF body.elems[n].jtype = "object"
                                  THEN [ Status |-> body.elems[n].status,
                                         Annotations |-> body.elems[n].annotations ]
                                  ELSE [ Status |-> "", Annotations |-> {} ] ] ]

\* http.Error(w, msg, code): status code and msg followed by a newline.
HttpError(msg, code) == [ status |-> code, body |-> msg \o "\n" ]

\* w.WriteHeader(code) with nothing written afterwards.
WriteHeader(code) == [ status |-> code, body |-> "" ]

Init ==
    /\ cfg = LoadedConfig
    /\ parked = << >>
    /\ self = 1
    /\ pc = "ReceivingBody"
    /\ readErr \in BOOLEAN
    /\ reqBody \in Bodies
    /\ alertMessage = << >>
    /\ i = 0
    /\ dashboard = ""
    /\ snapshotURL = ""
    /\ trace = << >>
    /\ resp = << >>

\* Variant of ReadBody without the return of main.go:193.
ReadBody_NoReturn ==
    /\ pc = "ReceivingBody"
    /\ IF readErr
       THEN resp' = Append(resp, HttpError("error reading request body", StatusInternalServerError))
       ELSE UNCHANGED resp
    /\ pc' = "Decoding"
    /\ UNCHANGED << cfg, parked, self, readErr, reqBody, alertMessage, i, dashboard, snapshotURL, trace >>

\* main.go:189-195
ReadBody ==
    /\ pc = "ReceivingBody"
    /\ IF readErr
       THEN /\ resp' = Append(resp, HttpError("error reading request body", StatusInternalServerError))
            /\ pc' = "Done"
       ELSE /\ pc' = "Decoding"
            /\ UNCHANGED resp
    /\ UNCHANGED << cfg, parked, self, readErr, reqBody, alertMessage, i, dashboard, snapshotURL, trace >>

\* main.go:212, the subject line of the message for one alert.
Subject(alert) == "Monitor Alert: " \o MapGet(alert.Annotations, "summary")

\* main.go:213, the HTML fragment for one alert.
Body(alert) ==
    "<h1>" \o MapGet(alert.Annotations, "summary") \o "</h1><p>"
           \o MapGet(alert.Annotations, "description") \o "</p>"

\* main.go:176, the text/html part handed to gomail.
HtmlBody(body, url) ==
    body \o "<br><br>Grafana Snapshot: <a href='" \o url \o "'>View Snapshot</a>"

\* main.go:95, the address of the dashboard-fetch call.
DashboardURL(dashboardUID) == cfg.GrafanaURL \o "/api/dashboards/uid/" \o dashboardUID

\* main.go:116, the address of the snapshot-create call.
SnapshotsURL == cfg.GrafanaURL \o "/api/snapshots"

\* Variant of SnapshotURLOrPlaceholder that forgets the substitution of
\* main.go:209 and keeps what createGrafanaSnapshot returned with the error.
SnapshotURLOrPlaceholder_NoSubstitute(url, err) == url

\* main.go:206-210: the value of snapshotURL after createGrafanaSnapshot
\* returned (url, err); err is "" for a nil error.
SnapshotURLOrPlaceholder(url, err) == IF err # "" THEN Placeholder ELSE url

\* Variant of LoopFrom whose loop stops one element early.
LoopFrom_OffByOne(alerts, k, tr) ==
    IF k > Len(alerts) - 1
    THEN /\ pc' = "Done"
         /\ i' = k
         /\ resp' = Append(resp, WriteHeader(StatusOK))
         /\ trace' = tr
    ELSE /\ pc' = "AwaitGet"
         /\ i' = k
         /\ UNCHANGED resp
         /\ trace' = tr \o << Ev("acquire", k, cfg.DashboardUID, "", ""),
                             Ev("GET", k, DashboardURL(cfg.DashboardUID), "", "") >>

\* Variant of LoopFrom that already starts the acquisition for the alert
\* after the current one while the current one is being processed.
LoopFrom_Prefetch(alerts, k, tr) ==
    IF k > Len(alerts)
    THEN /\ pc' = "Done"
         /\ i' = k
         /\ resp' = Append(resp, WriteHeader(StatusOK))
         /\ trace' = tr
    ELSE /\ pc' = "AwaitGet"
         /\ i' = k
         /\ UNCHANGED resp
         /\ trace' = tr \o
              (IF k < Len(alerts)
               THEN << Ev("acquire", k + 1, cfg.DashboardUID, "", "") >> ELSE << >>)
              \o << Ev("acquire", k, cfg.DashboardUID, "", ""),
                    Ev("GET", k, DashboardURL(cfg.DashboardUID), "", "") >>

\* Variant of LoopFrom that passes over the alerts whose status is not
\* "firing".
LoopFrom_FiringOnly(alerts, k, tr) ==
    LET firing == { n \in k..Len(alerts) : alerts[n].Status = "firing" }
        next == IF firing = {} THEN Len(alerts) + 1
                ELSE CHOOSE n \in firing : \A o \in firing : n <= o
    IN IF next > Len(alerts)
       THEN /\ pc' = "Done"
            /\ i' = next
            /\ resp' = Append(resp, WriteHeader(StatusOK))
            /\ trace' = tr
       ELSE /\ pc' = "AwaitGet"
            /\ i' = next
            /\ UNCHANGED resp
            /\ trace' = tr \o << Ev("acquire", next, cfg.DashboardUID, "", ""),
                                Ev("GET", next, DashboardURL(cfg.DashboardUID), "", "") >>

\* main.go:203-206 and 221: the range loop arrives at position k of alerts.
\* Past the end the handler writes 200 and returns; otherwise it enters
\* createGrafanaSnapshot, which blocks in the dashboard GET.
LoopFrom(alerts, k, tr) ==
    IF k > Len(alerts)
    THEN /\ pc' = "Done"
         /\ i' = k
         /\ resp' = Append(resp, WriteHeader(StatusOK))
         /\ trace' = tr
    ELSE /\ pc' = "AwaitGet"
         /\ i' = k
         /\ UNCHANGED resp
         /\ trace' = tr \o << Ev("acquire", k, cfg.DashboardUID, "", ""),
                             Ev("GET", k, DashboardURL(cfg.DashboardUID), "", "") >>

\* main.go:212-215 and 171-179: compose the message for the current alert
\* with url as its link and block in DialAndSend.
ComposeAndSend(url, tr) ==
    /\ snapshotURL' = url
    /\ trace' = tr \o
         << Ev("compose", i, url, Subject(alertMessage[i]), Body(alertMessage[i])),
            Ev("MAIL", i, cfg.RecipientEmail, Subject(alertMessage[i]),
               HtmlBody(Body(alertMessage[i]), url)) >>
    /\ pc' = "AwaitMail"

\* Variant of Decode that drops the error of json.Unmarshal and goes on
\* with whatever was decoded.
Decode_IgnoreErr ==
    /\ pc = "Decoding"
    /\ LET r == Unmarshal(reqBody)
           tr == Append(trace, Ev("decode", 0, r.err, "", ""))
       IN /\ alertMessage' = r.alerts
          /\ LoopFrom(r.alerts, 1, tr)
    /\ UNCHANGED << cfg, parked, self, readErr, reqBody, dashboard, snapshotURL >>

\* main.go:197-203
Decode ==
    /\ pc = "Decoding"
    /\ LET r == Unmarshal(reqBody)
           tr == Append(trace, Ev("decode", 0, r.err, "", ""))
       IN IF r.err # ""
          THEN /\ resp' = Append(resp, HttpError(r.err, StatusBadRequest))
               /\ pc' = "Done"
               /\ trace' = tr
               /\ UNCHANGED << alertMessage, i >>
          ELSE /\ alertMessage' = r.alerts
               /\ LoopFrom(r.alerts, 1, tr)
    /\ UNCHANGED << cfg, parked, self, readErr, reqBody, dashboard, snapshotURL >>

\* Variant of GetReturn that treats a failed dashboard fetch as fatal for
\* the request: it answers 500 and returns.
GetReturn_Abort(out) ==
    /\ pc = "AwaitGet"
    /\ IF out.res = "ok"
       THEN /\ dashboard' = out.val
            /\ trace' = trace \o << EvResp("GET.ok", i, out.val, out.raw),
                                    Ev("POST", i, out.val, "", "") >>
            /\ pc' = "AwaitPost"
            /\ UNCHANGED << snapshotURL, resp >>
       ELSE /\ dashboard' = ""
            /\ trace' = Append(trace, EvResp("GET.err", i, out.res, out.raw))
            /\ resp' = Append(resp, HttpError("error creating snapshot", StatusInternalServerError))
            /\ pc' = "Done"
            /\ UNCHANGED snapshotURL
    /\ UNCHANGED << cfg, parked, self, readErr, reqBody, alertMessage, i >>

\* Variant of GetReturn that skips the message of an alert whose dashboard
\* fetch failed and goes on with the next alert.
GetReturn_Skip(out) ==
    /\ pc = "AwaitGet"
    /\ IF out.res = "ok"
       THEN /\ dashboard' = out.val
            /\ trace' = trace \o << EvResp("GET.ok", i, out.val, out.raw),
                                    Ev("POST", i, out.val, "", "") >>
            /\ pc' = "AwaitPost"
            /\ UNCHANGED << i, resp >>
       ELSE /\ dashboard' = ""
            /\ LoopFrom(alertMessage, i + 1,
                        Append(trace, EvResp("GET.err", i, out.res, out.raw)))
    /\ UNCHANGED << cfg, parked, self, readErr, reqBody, alertMessage, snapshotURL >>

\* Variant of GetReturn whose POST carries what the dashboard variable held
\* before the fetch instead of the dashboard just fetched.
GetReturn_StaleDashboard(out) ==
    /\ pc = "AwaitGet"
    /\ IF out.res = "ok"
       THEN /\ dashboard' = out.val
            /\ trace' = trace \o << EvResp("GET.ok", i, out.val, out.raw),
                                    Ev("POST", i, dashboard, "", "") >>
            /\ pc' = "AwaitPost"
            /\ UNCHANGED snapshotURL
       ELSE /\ dashboard' = ""
            /\ ComposeAndSend(SnapshotURLOrPlaceholder("", out.res),
                              Append(trace, EvResp("GET.err", i, out.res, out.raw)))
    /\ UNCHANGED << cfg, parked, self, readErr, reqBody, alertMessage, i, resp >>

\* main.go:96-112 (the GET comes back), 81-86, 116-127 (on success the POST
\* is issued), 83 and 207-215 (on failure the handler goes on to the mail).
GetReturn(out) ==
    /\ pc = "AwaitGet"
    /\ IF out.res = "ok"
       THEN /\ dashboard' = out.val
            /\ trace' = trace \o << EvResp("GET.ok", i, out.val, out.raw),
                                    Ev("POST", i, out.val, "", "") >>
            /\ pc' = "AwaitPost"
            /\ UNCHANGED snapshotURL
       ELSE /\ dashboard' = ""
            /\ ComposeAndSend(SnapshotURLOrPlaceholder("", out.res),
                              Append(trace, EvResp("GET.err", i, out.res, out.raw)))
    /\ UNCHANGED << cfg, parked, self, readErr, reqBody, alertMessage, i, resp >>

\* Variant of PostReturn in which snapshotURL outlives the iteration: a URL
\* obtained for an earlier alert is kept and linked again.
PostReturn_Cached(out) ==
    /\ pc = "AwaitPost"
    /\ dashboard' = ""
    /\ IF out.res = "ok"
       THEN ComposeAndSend(IF snapshotURL \in SnapURLs THEN snapshotURL ELSE out.val,
                           Append(trace, EvResp("POST.ok", i, out.val, out.raw)))
       ELSE ComposeAndSend(SnapshotURLOrPlaceholder("", out.res),
                           Append(trace, EvResp("POST.err", i, out.res, out.raw)))
    /\ UNCHANGED << cfg, parked, self, readErr, reqBody, alertMessage, i, resp >>

\* main.go:127-143 (the POST comes back), 86-91, 207-215.
PostReturn(out) ==
    /\ pc = "AwaitPost"
    /\ dashboard' = ""
    /\ IF out.res = "ok"
       THEN ComposeAndSend(SnapshotURLOrPlaceholder(out.val, ""),
                           Append(trace, EvResp("POST.ok", i, out.val, out.raw)))
       ELSE ComposeAndSend(SnapshotURLOrPlaceholder("", out.res),
                           Append(trace, EvResp("POST.err", i, out.res, out.raw)))
    /\ UNCHANGED << cfg, parked, self, readErr, reqBody, alertMessage, i, resp >>

\* Variant of MailReturn that logs a failed delivery and goes on with the
\* next alert.
MailReturn_Continue(ok) ==
    /\ pc = "AwaitMail"
    /\ LoopFrom(alertMessage, i + 1,
                Append(trace, Ev(IF ok THEN "MAIL.ok" ELSE "MAIL.err", i, "", "", "")))
    /\ UNCHANGED << cfg, parked, self, readErr, reqBody, alertMessage, dashboard, snapshotURL >>

\* Variant of MailReturn that sends the message a second time when the
\* first delivery failed.
MailReturn_Retry(ok) ==
    /\ pc = "AwaitMail"
    /\ IF ok
       THEN LoopFrom(alertMessage, i + 1, Append(trace, Ev("MAIL.ok", i, "", "", "")))
       ELSE IF Cardinality({ n \in DOMAIN trace :
                               trace[n].kind = "MAIL" /\ trace[n].alert = i }) < 2
            THEN /\ trace' = trace \o
                      << Ev("MAIL.err", i, "", "", ""),
                         Ev("MAIL", i, cfg.RecipientEmail, Subject(alertMessage[i]),
                            HtmlBody(Body(alertMessage[i]), snapshotURL)) >>
                 /\ UNCHANGED << pc, i, resp >>
            ELSE /\ trace' = Append(trace, Ev("MAIL.err", i, "", "", ""))
                 /\ resp' = Append(resp, HttpError("Eerror sending email", StatusInternalServerError))
                 /\ pc' = "Done"
                 /\ UNCHANGED i
    /\ UNCHANGED << cfg, parked, self, readErr, reqBody, alertMessage, dashboard, snapshotURL >>

\* Variant of MailReturn without the return of main.go:218: the 500 is
\* written and the loop goes on.
MailReturn_NoReturn(ok) ==
    /\ pc = "AwaitMail"
    /\ IF ok
       THEN LoopFrom(alertMessage, i + 1, Append(trace, Ev("MAIL.ok", i, "", "", "")))
       ELSE IF i + 1 > Len(alertMessage)
            THEN /\ pc' = "Done"
                 /\ i' = i + 1
                 /\ trace' = Append(trace, Ev("MAIL.err", i, "", "", ""))
                 /\ resp' = resp \o
                      << HttpError("Eerror sending email", StatusInternalServerError),
                         WriteHeader(StatusOK) >>
            ELSE /\ pc' = "AwaitGet"
                 /\ i' = i + 1
                 /\ trace' = trace \o
                      << Ev("MAIL.err", i, "", "", ""),
                         Ev("acquire", i + 1, cfg.DashboardUID, "", ""),
                         Ev("GET", i + 1, DashboardURL(cfg.DashboardUID), "", "") >>
                 /\ resp' = Append(resp, HttpError("Eerror sending email",
                                                   StatusInternalServerError))
    /\ UNCHANGED << cfg, parked, self, readErr, reqBody, alertMessage, dashboard, snapshotURL >>

\* main.go:179-183 (DialAndSend comes back), 215-221.
MailReturn(ok) ==
    /\ pc = "AwaitMail"
    /\ IF ok
       THEN LoopFrom(alertMessage, i + 1, Append(trace, Ev("MAIL.ok", i, "", "", "")))
       ELSE /\ trace' = Append(trace, Ev("MAIL.err", i, "", "", ""))
            /\ resp' = Append(resp, HttpError("Eerror sending email", StatusInternalServerError))
            /\ pc' = "Done"
            /\ UNCHANGED i
    /\ UNCHANGED << cfg, parked, self, readErr, reqBody, alertMessage, dashboard, snapshotURL >>

Next ==
    \/ ReadBody
    \/ Decode
    \/ \E out \in GetOutcomes : GetReturn(out)
    \/ \E out \in PostOutcomes : PostReturn(out)
    \/ \E ok \in BOOLEAN : MailReturn(ok)

Spec == Init /\ [][Next]_vars

\* Decoding is the handler's own step and is always taken.  The two HTTP
\* calls come back because sendRequest's client carries Timeout: 10 s
\* (main.go:157).  Two waits are left to the peer and have no fairness: the
\* server of main.go:228 sets no read deadline, so io.ReadAll (main.go:189)
\* returns only when the client completes or breaks the body; and the dialer
\* of main.go:178 is given no deadline for the SMTP session, so DialAndSend
\* returns only when the relay answers.
FairSpec ==
    /\ Spec
    /\ WF_vars(Decode)
    /\ WF_vars(\E out \in GetOutcomes : GetReturn(out))
    /\ WF_vars(\E out \in PostOutcomes : PostReturn(out))

\* ------------------------------------------------- two requests in flight
\* Largest number of alerts of a request when two requests run together.
ConcAlerts == 1

ConcPool == { a \in AlertPool : a.jtype = "object" /\ a.annotations # {} }

ConcBodies ==
    { [ json |-> "invalid", alertsKey |-> "absent", elems |-> << >> ] }
    \cup
    { [ json |-> "object", alertsKey |-> "array", elems |-> s ]
        : s \in SeqsUpTo(ConcPool, ConcAlerts) }

ConcGetOutcomes ==
    { o \in GetOutcomes : o.res = "transport" \/ (o.res = "ok" /\ o.val = "dashA") }
ConcPostOutcomes ==
    { o \in PostOutcomes : o.raw.code = 500 \/ o.res = "ok" }

\* The locals of one handler goroutine.
Context(id, p, rerr, body, alerts, k, dash, url, tr, rsp) ==
    [ id |-> id, pc |-> p, readErr |-> rerr, reqBody |-> body,
      alertMessage |-> alerts, i |-> k, dashboard |-> dash,
      snapshotURL |-> url, trace |-> tr, resp |-> rsp ]

\* The locals of the goroutine that is running.
Running ==
    Context(self, pc, readErr, reqBody, alertMessage, i, dashboard, snapshotURL, trace, resp)

ConcInit ==
    /\ cfg = LoadedConfig
    /\ self = 1
    /\ pc = "ReceivingBody"
    /\ readErr \in BOOLEAN
    /\ reqBody \in ConcBodies
    /\ alertMessage = << >>
    /\ i = 0
    /\ dashboard = ""
    /\ snapshotURL = ""
    /\ trace = << >>
    /\ resp = << >>
    /\ \E rerr \in BOOLEAN, body \in ConcBodies :
         parked = << Context(2, "ReceivingBody", rerr, body, << >>, 0, "", "", << >>, << >>) >>

\* Variant of Switch for a handler that decodes into a package-level
\* alertMessage: the decoded batch is not part of a goroutine's locals and
\* stays where the last Unmarshal left it.
Switch_SharedAlertMessage ==
    /\ parked # << >>
    /\ parked' = << Running >>
    /\ self' = parked[1].id
    /\ pc' = parked[1].pc
    /\ readErr' = parked[1].readErr
    /\ reqBody' = parked[1].reqBody
    /\ i' = parked[1].i
    /\ dashboard' = parked[1].dashboard
    /\ snapshotURL' = parked[1].snapshotURL
    /\ trace' = parked[1].trace
    /\ resp' = parked[1].resp
    /\ UNCHANGED << cfg, alertMessage >>

\* main.go:226-228: http.ListenAndServe serves each request in its own
\* goroutine; the running handler is suspended and another one resumes with
\* its own locals (main.go:189-215 declares all of them inside handleAlert
\* and its callees).  cfg (main.go:39) is shared.
Switch ==
    /\ parked # << >>
    /\ parked' = << Running >>
    /\ self' = parked[1].id
    /\ pc' = parked[1].pc
    /\ readErr' = parked[1].readErr
    /\ reqBody' = parked[1].reqBody
    /\ alertMessage' = parked[1].alertMessage
    /\ i' = parked[1].i
    /\ dashboard' = parked[1].dashboard
    /\ snapshotURL' = parked[1].snapshotURL
    /\ trace' = parked[1].trace
    /\ resp' = parked[1].resp
    /\ UNCHANGED cfg

ConcNext ==
    \/ ReadBody
    \/ Decode
    \/ \E out \in ConcGetOutcomes : GetReturn(out)
    \/ \E out \in ConcPostOutcomes : PostReturn(out)
    \/ \E ok \in BOOLEAN : MailReturn(ok)
    \/ Switch

ConcSpec == ConcInit /\ [][ConcNext]_vars

TypeOK ==
    /\ pc \in { "ReceivingBody", "Decoding", "AwaitGet", "AwaitPost", "AwaitMail", "Done" }
    /\ i \in 0..(MaxAlerts + 1)
    /\ Len(resp) <= 1

\* ------------------------------------------------- vocabulary of the claims
\* The trace holds an event of this kind for the alert at position k.
Has(kind, k) == \E n \in DOMAIN trace : trace[n].kind = kind /\ trace[n].alert = k

OfKind(kind) == SelectSeq(trace, LAMBDA e : e.kind = kind)

CountFor(kind, k) ==
    Cardinality({ n \in DOMAIN trace : trace[n].kind = kind /\ trace[n].alert = k })

OutboundKinds == { "GET", "POST", "MAIL" }

NoOutboundCalls == \A n \in DOMAIN trace : trace[n].kind \notin OutboundKinds

\* The body is a JSON object with an "alerts" array of alert objects.
WellFormed(body) ==
    /\ body.json = "object"
    /\ body.alertsKey = "array"
    /\ \A n \in DOMAIN body.elems : body.elems[n].jtype = "object"

SummaryOf(elem) == MapGet(elem.annotations, "summary")

\* The alert at position k had its snapshot acquisition fail.
SnapshotFailed(k) == Has("GET.err", k) \/ Has("POST.err", k)

LinkOpen == "<br><br>Grafana Snapshot: <a href='"
LinkClose == "'>View Snapshot</a>"

\* ---------------------------------------------------------------------- C1
\* C1 as stated: when the request for a well-formed batch of N alerts has
\* returned, snapshot acquisition and composition were each attempted
\* exactly N times.
C1_AsStated ==
    (pc = "Done" /\ ~readErr /\ WellFormed(reqBody)) =>
        /\ Len(OfKind("acquire")) = Len(reqBody.elems)
        /\ Len(OfKind("compose")) = Len(reqBody.elems)

\* The position of the first alert whose delivery failed, or N if none did.
LastProcessed ==
    IF \E n \in DOMAIN trace : trace[n].kind = "MAIL.err"
    THEN trace[CHOOSE n \in DOMAIN trace : trace[n].kind = "MAIL.err"].alert
    ELSE Len(reqBody.elems)

\* C1 amended: when the request for a well-formed batch of N alerts has
\* returned, snapshot acquisition and composition were each attempted once
\* per alert, in input order, for the alerts up to and including the first
\* one whose mail delivery failed: exactly N times when no delivery failed,
\* exactly k times when the delivery for the k-th alert failed.
C1_OncePerAlertInOrder ==
    (pc = "Done" /\ ~readErr /\ WellFormed(reqBody)) =>
        LET acq == OfKind("acquire")
            cmp == OfKind("compose")
        IN /\ Len(acq) = LastProcessed
           /\ Len(cmp) = LastProcessed
           /\ \A k \in 1..LastProcessed :
                /\ acq[k].alert = k
                /\ cmp[k].alert = k
                /\ cmp[k].subject = "Monitor Alert: " \o SummaryOf(reqBody.elems[k])

C1_Witness ==
    /\ pc = "Done" /\ ~readErr /\ WellFormed(reqBody)
    /\ Len(reqBody.elems) >= 2
    /\ SummaryOf(reqBody.elems[1]) # SummaryOf(reqBody.elems[2])
    /\ Len(OfKind("acquire")) = Len(reqBody.elems)
    /\ Len(OfKind("compose")) = Len(reqBody.elems)

\* ---------------------------------------------------------------------- C2
\* C2: a request whose body is not valid JSON, or is JSON without the
\* "alerts" key, is answered with 400 and makes no outbound call.
C2_BadBodyIs400 ==
    (pc = "Done" /\ ~readErr
       /\ (reqBody.json \in { "invalid", "empty" } \/ reqBody.alertsKey = "absent")) =>
        /\ Len(resp) = 1
        /\ resp[1].status = StatusBadRequest
        /\ NoOutboundCalls

\* ---------------------------------------------------------------------- C3
\* C3: a failed snapshot acquisition for an alert is followed, in the same
\* step of the handler, by the composition and the delivery attempt of a
\* message for that same alert whose link is the placeholder text; the
\* failure writes no response, and a 500 is only ever the answer to a failed
\* body read or a failed delivery.
C3_SnapshotFailureDegrades ==
    /\ \A n \in DOMAIN trace :
         trace[n].kind \in { "GET.err", "POST.err" } =>
            /\ Len(trace) >= n + 2
            /\ trace[n + 1].kind = "compose"
            /\ trace[n + 1].alert = trace[n].alert
            /\ trace[n + 2].kind = "MAIL"
            /\ trace[n + 2].alert = trace[n].alert
            /\ trace[n + 2].subject = trace[n + 1].subject
            /\ trace[n + 2].html =
                 trace[n + 1].html \o LinkOpen \o "failed to get snapshot URL" \o LinkClose
            /\ (Len(trace) = n + 2 => (pc = "AwaitMail" /\ resp = << >>))
    /\ \A m \in DOMAIN resp :
         resp[m].status = StatusInternalServerError =>
            \/ readErr
            \/ (trace # << >> /\ trace[Len(trace)].kind = "MAIL.err")

C3_Witness ==
    /\ pc = "Done"
    /\ Len(resp) = 1 /\ resp[1].status = StatusOK
    /\ Len(alertMessage) >= 2
    /\ Has("GET.err", 1) /\ Has("MAIL.ok", 1)
    /\ Has("POST.err", 2) /\ Has("MAIL.ok", 2)

\* ---------------------------------------------------------------------- C4
\* The alert at position j got its snapshot, composition and delivery
\* attempts.
Attempted(j) == Has("acquire", j) /\ Has("compose", j) /\ Has("MAIL", j)

\* C4: when the request for a decoded batch has returned, the alert at
\* position j was attempted exactly when no delivery for an earlier alert
\* failed; the outcome of snapshot acquisitions plays no part.
C4_SiblingsIndependentOfSnapshot ==
    (pc = "Done" /\ ~readErr /\ WellFormed(reqBody)) =>
        \A j \in DOMAIN reqBody.elems :
            Attempted(j) <=> ~(\E m \in 1..(j - 1) : Has("MAIL.err", m))

C4_Witness ==
    /\ pc = "Done" /\ ~readErr /\ WellFormed(reqBody)
    /\ Len(reqBody.elems) >= 2
    /\ SnapshotFailed(1)
    /\ Attempted(2)

\* ---------------------------------------------------------------------- C5
\* C5: a failed delivery is the last thing that happens in a request: the
\* handler has answered 500 and returned, and nothing was attempted for a
\* later alert.
C5_DeliveryFailureAborts ==
    \A n \in DOMAIN trace :
        trace[n].kind = "MAIL.err" =>
            /\ n = Len(trace)
            /\ pc = "Done"
            /\ resp = << [ status |-> 500, body |-> "Eerror sending email\n" ] >>
            /\ \A m \in DOMAIN trace : trace[m].alert <= trace[n].alert

C5_Witness ==
    /\ pc = "Done"
    /\ Len(alertMessage) >= 2
    /\ Has("MAIL.err", 1)

\* ---------------------------------------------------------------------- C6
\* C6: when the handler has returned, the response is 200 with an empty body
\* exactly when the body was read, the batch was decoded and a delivery
\* succeeded for every alert of it; and no state holds both a 200 and a
\* failed delivery.
C6_OkIffAllDelivered ==
    /\ pc = "Done" =>
         /\ Len(resp) = 1
         /\ (resp[1] = [ status |-> 200, body |-> "" ]) <=>
               /\ ~readErr
               /\ Unmarshal(reqBody).err = ""
               /\ \A k \in DOMAIN Unmarshal(reqBody).alerts : Has("MAIL.ok", k)
    /\ (\E m \in DOMAIN resp : resp[m].status = StatusOK) =>
         ~(\E n \in DOMAIN trace : trace[n].kind = "MAIL.err")

C6_Witness ==
    /\ pc = "Done"
    /\ resp = << [ status |-> 200, body |-> "" ] >>
    /\ Len(alertMessage) >= 2
    /\ SnapshotFailed(1) /\ SnapshotFailed(2)

\* ---------------------------------------------------------------------- C7
\* C7: once reading the body has failed, the handler has answered 500 and
\* returned without decoding and without any outbound call.
C7_ReadFailureIs500 ==
    (readErr /\ pc # "ReceivingBody") =>
        /\ pc = "Done"
        /\ resp = << [ status |-> 500, body |-> "error reading request body\n" ] >>
        /\ trace = << >>
        /\ alertMessage = << >>

C7_Witness ==
    /\ readErr /\ pc = "Done"
    /\ WellFormed(reqBody) /\ Len(reqBody.elems) >= 1

\* ---------------------------------------------------------------------- C8
\* C8: the message sent for an alert links a snapshot URL u exactly when the
\* snapshot-create call made for that alert in this request returned u.
C8_LinkIsOwnSnapshot ==
    \A n \in DOMAIN trace :
        trace[n].kind = "MAIL" =>
            \A u \in SnapURLs :
                (trace[n].html = trace[n - 1].html \o LinkOpen \o u \o LinkClose)
                <=> (\E m \in 1..(n - 1) :
                        /\ trace[m].kind = "POST.ok"
                        /\ trace[m].alert = trace[n].alert
                        /\ trace[m].val = u)

C8_Witness ==
    /\ pc = "Done"
    /\ \E m1, m2 \in DOMAIN trace :
         /\ trace[m1].kind = "POST.ok" /\ trace[m1].alert = 1
         /\ trace[m2].kind = "POST.ok" /\ trace[m2].alert = 2
         /\ trace[m1].val # trace[m2].val
    /\ Has("MAIL", 1) /\ Has("MAIL", 2)

\* ---------------------------------------------------------------------- C9
\* C9: in one request each alert is the subject of at most one dashboard
\* fetch, one snapshot-create call and one mail delivery attempt.
C9_NoRetries ==
    \A k \in 1..Len(alertMessage) :
        \A kind \in OutboundKinds : CountFor(kind, k) <= 1

C9_Witness ==
    /\ pc = "Done"
    /\ Len(alertMessage) >= 2
    /\ Has("GET.err", 1) /\ Has("MAIL.ok", 1)
    /\ Has("POST.err", 2) /\ Has("MAIL.err", 2)

\* --------------------------------------------------------------------- C10
\* C10: the outbound operations cannot stall the handler: every request
\* whose body has arrived eventually gets its response and the handler
\* returns.
C10_EventuallyResponds == (pc = "Decoding") ~> (pc = "Done" /\ Len(resp) = 1)

\* --------------------------------------------------------------------- C11
\* The requests in flight, each with the locals of its goroutine.
InFlight == { Running } \cup { parked[n] : n \in DOMAIN parked }

\* What came back to a request from its own outbound calls, in order.
OutcomesOf(tr) ==
    SelectSeq(tr, LAMBDA e : e.kind \in { "GET.ok", "GET.err", "POST.ok", "POST.err",
                                          "MAIL.ok", "MAIL.err" })

\* Everything a request has done is about its own body: its batch is the
\* decoding of its own body, and each event is for an alert of that batch
\* and carries that alert's subject.
OwnInputOnly(c) ==
    /\ c.alertMessage \in { << >>, Unmarshal(c.reqBody).alerts }
    /\ \A n \in DOMAIN c.trace :
         c.trace[n].kind # "decode" =>
            /\ c.trace[n].alert \in DOMAIN c.reqBody.elems
            /\ c.trace[n].kind \in { "compose", "MAIL" } =>
                 c.trace[n].subject =
                    "Monitor Alert: " \o SummaryOf(c.reqBody.elems[c.trace[n].alert])

\* C11: with two requests in flight under every interleaving, the
\* configuration stays what startup loaded, each request works on its own
\* input only, and two requests with the same input that stand at the same
\* place after the same outcomes of their own outbound calls have made the
\* same sequence of calls and written the same response.
C11_RequestsIndependent ==
    /\ cfg = LoadedConfig
    /\ \A c \in InFlight : OwnInputOnly(c)
    /\ \A c1, c2 \in InFlight :
         ( /\ c1.readErr = c2.readErr
           /\ c1.reqBody = c2.reqBody
           /\ c1.pc = c2.pc
           /\ OutcomesOf(c1.trace) = OutcomesOf(c2.trace) ) =>
              /\ c1.trace = c2.trace
              /\ c1.resp = c2.resp
              /\ c1.i = c2.i

\* Both requests are in the middle of their loop, on different batches, and
\* the processor has changed hands.
C11_Witness ==
    /\ self = 2
    /\ pc = "AwaitMail"
    /\ parked # << >>
    /\ parked[1].pc = "AwaitPost"
    /\ parked[1].reqBody # reqBody
    /\ Len(parked[1].alertMessage) >= 1 /\ Len(alertMessage) >= 1

\* --------------------------------------------------------------------- C12
\* The place of an event in the processing of one alert.
Rank(kind) ==
    CASE kind = "acquire" -> 1
      [] kind = "GET" -> 2
      [] kind \in { "GET.ok", "GET.err" } -> 3
      [] kind = "POST" -> 4
      [] kind \in { "POST.ok", "POST.err" } -> 5
      [] kind = "compose" -> 6
      [] kind = "MAIL" -> 7
      [] kind \in { "MAIL.ok", "MAIL.err" } -> 8
      [] OTHER -> 0

\* C12: the events of a request come alert by alert in input order; within
\* an alert they come in the order acquisition, composition, delivery; and
\* nothing happens for alert k+1 before the delivery for alert k has come
\* back.
C12_StrictlySequential ==
    \A m \in DOMAIN trace :
        trace[m].kind # "decode" =>
            /\ \A n \in 1..(m - 1) :
                 trace[n].kind # "decode" =>
                    /\ trace[n].alert <= trace[m].alert
                    /\ trace[n].alert = trace[m].alert =>
                         Rank(trace[n].kind) < Rank(trace[m].kind)
            /\ trace[m].alert > 1 =>
                 \E n \in 1..(m - 1) :
                    /\ trace[n].kind = "MAIL.ok"
                    /\ trace[n].alert = trace[m].alert - 1

C12_Witness ==
    /\ pc = "Done"
    /\ Len(alertMessage) >= 2
    /\ Has("POST.ok", 1) /\ Has("MAIL.ok", 1)
    /\ Has("POST.ok", 2) /\ Has("MAIL.ok", 2)

\* --------------------------------------------------------------------- C13
\* The response is not a success response holding the expected field.
BadResponse(raw) ==
    \/ raw.transport
    \/ raw.code \notin 200..299
    \/ raw.body # "field"

\* C13: a Grafana response that is a transport error, has a non-success
\* status or lacks the expected field makes its call fail, and the alert's
\* message is composed with the placeholder; a message is composed with a
\* URL only when the GET and the POST for that alert both came back with a
\* success status and the expected field, and the URL is the POST's field.
C13_UrlOnlyOnFullSuccess ==
    \A n \in DOMAIN trace :
        /\ (trace[n].kind \in { "GET.ok", "GET.err", "POST.ok", "POST.err" }
              /\ BadResponse(trace[n].raw)) =>
                /\ trace[n].kind \in { "GET.err", "POST.err" }
                /\ trace[n + 1].kind = "compose"
                /\ trace[n + 1].alert = trace[n].alert
                /\ trace[n + 1].val = "failed to get snapshot URL"
        /\ (trace[n].kind = "compose" /\ trace[n].val # "failed to get snapshot URL") =>
                \E g, p \in 1..(n - 1) :
                    /\ trace[g].kind = "GET.ok" /\ trace[g].alert = trace[n].alert
                    /\ ~BadResponse(trace[g].raw)
                    /\ trace[p].kind = "POST.ok" /\ trace[p].alert = trace[n].alert
                    /\ ~BadResponse(trace[p].raw)
                    /\ trace[p].raw.val = trace[n].val

C13_Witness ==
    /\ pc = "Done"
    /\ \E g, p \in DOMAIN trace :
         /\ trace[g].kind = "GET.err" /\ trace[g].alert = 1 /\ trace[g].raw.code = 500
         /\ trace[p].kind = "POST.err" /\ trace[p].alert = 2 /\ trace[p].raw.body = "wrongtype"
    /\ Has("MAIL", 1) /\ Has("MAIL", 2)

\* --------------------------------------------------------------------- C14
\* The values an annotation can take in the message: the value under the
\* key, or the empty string when the key is missing.
AnnotationOrEmpty(elem, key) ==
    IF \E p \in elem.annotations : p[1] = key
    THEN { p[2] : p \in { q \in elem.annotations : q[1] = key } }
    ELSE { "" }

\* C14: every composition, also for an alert without summary, description
\* or annotations, gives the subject "Monitor Alert: " plus the summary and
\* the fragment with summary and description, a missing one being the empty
\* string, and is followed at once by the delivery attempt for that alert.
C14_ComposeNeverFails ==
    \A n \in DOMAIN trace :
        trace[n].kind = "compose" =>
            /\ \E sm \in AnnotationOrEmpty(reqBody.elems[trace[n].alert], "summary"),
                  ds \in AnnotationOrEmpty(reqBody.elems[trace[n].alert], "description") :
                    /\ trace[n].subject = "Monitor Alert: " \o sm
                    /\ trace[n].html = "<h1>" \o sm \o "</h1><p>" \o ds \o "</p>"
            /\ Len(trace) > n
            /\ trace[n + 1].kind = "MAIL"
            /\ trace[n + 1].alert = trace[n].alert
            /\ trace[n + 1].subject = trace[n].subject

C14_Witness ==
    /\ pc = "Done"
    /\ Len(reqBody.elems) >= 2
    /\ reqBody.elems[1].annotations = {}
    /\ reqBody.elems[2].annotations = { <<"summary", "Disk full">> }
    /\ Has("MAIL.ok", 1) /\ Has("MAIL.ok", 2)

\* --------------------------------------------------------------------- C15
\* C15: a request that has not returned has written nothing; one that has
\* returned has written exactly one status, which is 200, 400 or 500; and
\* once a status is written no step makes a further call or writes again.
C15_OneResponse ==
    /\ [](/\ Len(resp) <= 1
          /\ (pc # "Done" => resp = << >>)
          /\ (pc = "Done" =>
                /\ Len(resp) = 1
                /\ resp[1].status \in { 200, 400, 500 }))
    /\ [][resp # << >> => (trace' = trace /\ resp' = resp)]_vars

C15_Witness ==
    /\ pc = "Done"
    /\ Len(resp) = 1 /\ resp[1].status = 500
    /\ Len(alertMessage) >= 2
    /\ Has("MAIL.err", 1)

\* --------------------------------------------------------------------- C16
Started == Len(OfKind("acquire"))
Deliveries == Len(OfKind("MAIL"))

\* C16: the number d of delivery attempts and the number s of snapshot
\* acquisitions started satisfy d <= s <= d + 1, and an alert is delivered
\* only if every alert before it was delivered.
C16_CountsAndPrefix ==
    /\ Deliveries <= Started
    /\ Started <= Deliveries + 1
    /\ \A k \in 1..Len(alertMessage) :
         Has("MAIL.ok", k) => \A m \in 1..(k - 1) : Has("MAIL.ok", m)

C16_Witness ==
    /\ pc = "AwaitPost"
    /\ i = 2
    /\ Has("MAIL.ok", 1)
    /\ Started = 2 /\ Deliveries = 1

\* --------------------------------------------------------------------- C17
\* C17: a snapshot-create POST directly follows the successful return of the
\* dashboard GET of the same alert and carries the dashboard that GET
\* returned; after a failed GET there is no POST for that alert; and an
\* alert has at most two Grafana calls.
C17_PostOnlyAfterGet ==
    /\ \A n \in DOMAIN trace :
         /\ trace[n].kind = "POST" =>
              /\ n > 1
              /\ trace[n - 1].kind = "GET.ok"
              /\ trace[n - 1].alert = trace[n].alert
              /\ trace[n - 1].raw.val = trace[n].val
              /\ trace[n].val \in Dashboards
         /\ trace[n].kind = "GET.err" => ~Has("POST", trace[n].alert)
    /\ \A k \in 1..Len(alertMessage) : CountFor("GET", k) + CountFor("POST", k) <= 2

C17_Witness ==
    /\ pc = "Done"
    /\ \E n \in DOMAIN trace :
         trace[n].kind = "POST" /\ trace[n].alert = 1 /\ trace[n].val = "dashB"
    /\ Has("GET.err", 2) /\ Has("MAIL", 2)

\* --------------------------------------------------------------------- C18
\* The loop has arrived at the alert at position k.
Arrived(k) == k = 1 \/ Has("MAIL.ok", k - 1)

\* C18: an alert whose status is not "firing" is treated like any other:
\* once the loop has arrived at it, its snapshot acquisition has started,
\* and when the handler returns its message was composed and handed to the
\* mail relay.
C18_NoStatusFilter ==
    (~readErr /\ WellFormed(reqBody) /\ pc \notin { "ReceivingBody", "Decoding" }) =>
        \A k \in DOMAIN reqBody.elems :
            (reqBody.elems[k].status # "firing" /\ Arrived(k)) =>
                /\ Has("acquire", k) /\ Has("GET", k)
                /\ pc = "Done" => (Has("compose", k) /\ Has("MAIL", k))

C18_Witness ==
    /\ pc = "Done"
    /\ ~readErr /\ WellFormed(reqBody)
    /\ Len(reqBody.elems) >= 2
    /\ reqBody.elems[1].status = "resolved"
    /\ reqBody.elems[2].status = "other"
    /\ Has("MAIL.ok", 1) /\ Has("MAIL.ok", 2)
====
